---- MODULE Spec2Model ----
(***************************************************************************)
(* Model of src/utils/pmap-parser.ts: parsePmap, the line-oriented block   *)
(* parser of the .pmap dialect, and processInlineMarkup, its transform of  *)
(* inline bold and link syntax.                                            *)
(*                                                                         *)
(* A JavaScript string is a sequence of one-character strings, so that     *)
(* trim, startsWith, substring and the regular expressions of the source   *)
(* are computed and not assumed.  An optional value (a possibly undefined  *)
(* field, a possibly null array) is <<>> when absent and <<v>> when it is  *)
(* v.                                                                      *)
(***************************************************************************)
EXTENDS Integers, Sequences, FiniteSets, TLC

VARIABLES
  lines, i, result, currentList, inMetadata,  \* the locals of parsePmap
  pc,        \* where the function that runs is
  earlier,   \* the content and the result of the first call that returned
  input,     \* the argument that processInlineMarkup was called with
  text       \* the parameter text of processInlineMarkup, reassigned

vars == <<lines, i, result, currentList, inMetadata, pc, earlier, input, text>>

(***************************************************************************)
(* Bounds                                                                  *)
(***************************************************************************)
\* the longest document drawn from the line vocabulary, in lines
MaxLines == 3
\* the longest body after a metadata block, in lines
MaxBody == 2
\* the longest document of the vocabulary that termination is checked on
MaxLiveLines == 2
\* the longest text drawn from the token vocabulary, in tokens
MaxTokens == 4

(***************************************************************************)
(* Strings                                                                 *)
(***************************************************************************)
Min(S) == CHOOSE x \in S : \A y \in S : x <= y

\* White space of String.prototype.trim and of \s
IsSpace(c) == c \in {" ", "\t", "\r"}

\* A character "." of a regular expression matches: all but line terminators
IsDot(c) == c \notin {"\n", "\r"}

IsNotPipe(c) == c # "|"

IsHash(c) == c = "#"

IsNotStar(c) == c # "*"

IsNotBracket(c) == c # "]"

IsNotParen(c) == c # ")"

\* Character c matches the atom of a regular expression: \s, ".", [^\|], #,
\* [^\*], [^\]], [^\)]
Matches(atom, c) ==
  CASE atom = "\\s"    -> IsSpace(c)
    [] atom = "."      -> IsDot(c)
    [] atom = "[^\\|]" -> IsNotPipe(c)
    [] atom = "#"      -> IsHash(c)
    [] atom = "[^\\*]" -> IsNotStar(c)
    [] atom = "[^\\]]" -> IsNotBracket(c)
    [] atom = "[^\\)]" -> IsNotParen(c)

\* s.startsWith(prefix)
StartsWith(s, prefix) ==
  /\ Len(s) >= Len(prefix)
  /\ SubSeq(s, 1, Len(prefix)) = prefix

\* s.substring(n), n counted from 0
Substring(s, n) == SubSeq(s, n + 1, Len(s))

\* The character at position n (from 1), "" past the end of the string
CharAt(s, n) == IF n \in 1..Len(s) THEN s[n] ELSE ""

\* The length of the longest run of characters matching atom that starts at
\* position n (from 1): what a greedy atom* can consume there
RECURSIVE Run(_, _, _)
Run(atom, s, n) ==
  IF n > Len(s) \/ ~Matches(atom, s[n]) THEN 0 ELSE 1 + Run(atom, s, n + 1)

\* The same towards the start of the string, from position n down
RECURSIVE RunBack(_, _, _)
RunBack(atom, s, n) ==
  IF n < 1 \/ ~Matches(atom, s[n]) THEN 0 ELSE 1 + RunBack(atom, s, n - 1)

\* s.trim()
Trim(s) ==
  LET first == 1 + Run("\\s", s, 1)
      last  == Len(s) - RunBack("\\s", s, Len(s))
  IN  IF first > last THEN <<>> ELSE SubSeq(s, first, last)

\* content.split('\n'): the pieces between the separators, at least one
RECURSIVE SplitFrom(_, _, _)
SplitFrom(s, n, piece) ==
  IF n > Len(s) THEN <<piece>>
  ELSE IF s[n] = "\n" THEN <<piece>> \o SplitFrom(s, n + 1, <<>>)
  ELSE SplitFrom(s, n + 1, Append(piece, s[n]))

Split(s) == SplitFrom(s, 1, <<>>)

(***************************************************************************)
(* Literals of the source                                                  *)
(***************************************************************************)
Dashes        == <<"-", "-", "-">>
TitleKey      == <<"t", "i", "t", "l", "e", ":">>
DescKey       == <<"d", "e", "s", "c", "r", "i", "p", "t", "i", "o", "n", ":">>
HashMark      == <<"#">>
ImageKey      == <<"[", "i", "m", "a", "g", "e", ":">>
DashMark      == <<"-">>

Undefined == <<>>
Null      == <<>>
Some(v)   == <<v>>

(***************************************************************************)
(* Sections (PmapSection)                                                  *)
(***************************************************************************)
ListSection(items) == [type |-> "list", content |-> <<>>, items |-> items]

HeadingSection(content, level) ==
  [type |-> "heading", content |-> content, level |-> level]

ImageSection(url, alt) ==
  [type |-> "image", content |-> <<>>, url |-> url, alt |-> alt]

TextSection(content) == [type |-> "text", content |-> content]

\* A flush that pushes a list section without testing currentList
FlushedUntested(sections, list) ==
  Append(sections, ListSection(IF list # Null THEN list[1] ELSE <<>>))

\* if (currentList) { result.sections.push({type: 'list', items: currentList}) }
Flushed(sections, list) ==
  IF list # Null THEN Append(sections, ListSection(list[1])) ELSE sections

\* A level that stops at 6, the deepest heading of HTML
HeadingLevelCapped(trimmed) ==
  LET n == Run("#", trimmed, 1) IN IF n = 0 THEN 1 ELSE IF n > 6 THEN 6 ELSE n

\* trimmed.match(/^#+/)?.[0].length || 1
HeadingLevel(trimmed) ==
  LET n == Run("#", trimmed, 1) IN IF n = 0 THEN 1 ELSE n

\* trimmed.match(/\[image:\s*([^\|]+)\s*(?:\|\s*(.+))?\]/)
\*
\* An attempt at position p is a choice of k (the first \s*), m (group 1),
\* j (the second \s*), g (1 when the optional group takes part), w (the \s*
\* of the optional group) and n (group 2).  Every quantifier is greedy and
\* the engine backtracks the latest choice first, so the match it reports
\* at p is the lexicographically greatest attempt, and the match of the
\* string is the one at the leftmost position that has any.
ImageTails(s, c) ==
  (IF CharAt(s, c) = "]" THEN {[g |-> 0, w |-> 0, n |-> 0]} ELSE {})
  \cup
  (IF CharAt(s, c) = "|"
   THEN UNION { { [g |-> 1, w |-> w, n |-> n] :
                    n \in {x \in 1..Run(".", s, c + 1 + w) :
                             CharAt(s, c + 1 + w + x) = "]"} } :
                w \in 0..Run("\\s", s, c + 1) }
   ELSE {})

ImageAttempts(s, p) ==
  LET q == p + Len(ImageKey)
  IN  UNION { UNION { UNION {
        { [k |-> k, m |-> m, j |-> j, g |-> t.g, w |-> t.w, n |-> t.n] :
            t \in ImageTails(s, q + k + m + j) } :
          j \in 0..Run("\\s", s, q + k + m) } :
          m \in 1..Run("[^\\|]", s, q + k) } :
          k \in 0..Run("\\s", s, q) }

Prefer(a, b) ==
  \/ a.p < b.p
  \/ /\ a.p = b.p
     /\ \E x \in 1..6 :
          /\ a.t[x] > b.t[x]
          /\ \A y \in 1..(x - 1) : a.t[y] = b.t[y]

\* every attempt that succeeds, with its position p and its choices t
ImageMatches(s) ==
  UNION { { [p |-> p, t |-> <<a.k, a.m, a.j, a.g, a.w, a.n>>] :
              a \in ImageAttempts(s, p) } :
          p \in {x \in 1..(Len(s) - Len(ImageKey) + 1) :
                   SubSeq(s, x, x + Len(ImageKey) - 1) = ImageKey} }

\* the groups 1 and 2 of attempt a; group 2 is <<>> when it took no part
ImageGroups(s, a) ==
  LET u == a.p + Len(ImageKey) + a.t[1]
      v == u + a.t[2] + a.t[3] + 1 + a.t[5]
  IN  [url |-> SubSeq(s, u, u + a.t[2] - 1),
       alt |-> IF a.t[4] = 1 THEN Some(SubSeq(s, v, v + a.t[6] - 1))
                             ELSE Undefined]

\* <<>> when the expression does not match s, and otherwise <<groups>> for
\* the attempt the engine reports (M and a are bound so as to be computed
\* once)
ImageMatch(s) ==
  CHOOSE r \in UNION {
      IF M = {} THEN {Null}
      ELSE { Some(ImageGroups(s, a)) :
               a \in {x \in M : \A y \in M : x = y \/ Prefer(x, y)} } :
      M \in {ImageMatches(s)} } : TRUE

\* match[2]?.trim() || ''
ImageAlt(match) == IF match.alt = Undefined THEN <<>> ELSE Trim(match.alt[1])

(***************************************************************************)
(* Input: the documents of at most MaxLines lines over a vocabulary that   *)
(* has every kind of line the parser tells apart, and the documents that   *)
(* open with a whole metadata block followed by at most MaxBody such       *)
(* lines, all joined by "\n"                                               *)
(***************************************************************************)
LBlank       == <<>>
LDashes      == <<"-", "-", "-">>
LTitle       == <<"t", "i", "t", "l", "e", ":", " ", "M", "y", " ", "D", "o", "c">>
LTitleT      == <<"t", "i", "t", "l", "e", ":", "T">>
LDescription == <<"d", "e", "s", "c", "r", "i", "p", "t", "i", "o", "n", ":", " ", "A", " ", "t", "e", "s", "t">>
LWelcome     == <<"#", " ", "W", "e", "l", "c", "o", "m", "e">>
LHello       == <<"#", "#", " ", "H", "e", "l", "l", "o">>
LItemA       == <<"-", " ", "a">>
LItemB       == <<" ", "-", "b", "\t">>
LImageAlt    == <<"[", "i", "m", "a", "g", "e", ":", " ", "a", ".", "p", "n", "g", " ", "|", " ", "A", " ", "c", "a", "t", "]">>
LImage       == <<"[", "i", "m", "a", "g", "e", ":", " ", "a", ".", "p", "n", "g", "]">>
LImageOpen   == <<"[", "i", "m", "a", "g", "e", ":", " ", "a", ".", "p", "n", "g">>
LImageEmpty  == <<"[", "i", "m", "a", "g", "e", ":", "]">>
LImageTail   == <<"[", "i", "m", "a", "g", "e", ":", "u", " ", "|", "a", "]", " ", "b", "]">>
LPara        == <<"p">>
LDeep        == <<"#", "#", "#", "#", " ", "X">>
LTen         == <<"#", "#", "#", "#", "#", "#", "#", "#", "#", "#">>
LDescB       == <<"d", "e", "s", "c", "r", "i", "p", "t", "i", "o", "n", ":", "B">>
LParaQ       == <<"\t", "q", " ">>

Vocabulary ==
  {LBlank, LDashes, LTitle, LTitleT, LDescription, LWelcome, LHello,
   LItemA, LItemB, LImageAlt, LImage, LImageOpen,
   LImageEmpty, LImageTail, LPara}

FrontMatter == <<LDashes, LTitle, LDescription, LDashes>>

\* paragraph, list line, blank line, paragraph
ListExample == <<LPara, LItemA, LBlank, LPara>>

\* headings of level 4 and 10; a block with two titles and two
\* descriptions; two paragraphs, the first with white space around it
MoreExamples ==
  { <<LDeep, LTen>>,
    <<LDashes, LTitleT, LDescription, LTitle, LDescB, LDashes, LPara>>,
    <<LParaQ, LPara>> }

Documents ==
  (UNION {[1..n -> Vocabulary] : n \in 1..MaxLines})
  \cup (UNION {{FrontMatter \o d : d \in [1..n -> Vocabulary]} : n \in 0..MaxBody})
  \cup {ListExample}
  \cup MoreExamples

\* lines.join('\n')
RECURSIVE Join(_)
Join(d) ==
  IF Len(d) = 1 THEN d[1]
  ELSE Join(SubSeq(d, 1, Len(d) - 1)) \o <<"\n">> \o d[Len(d)]

\* the documents that the check of termination draws from
LiveDocuments ==
  (UNION {[1..n -> Vocabulary] : n \in 1..MaxLiveLines})
  \cup {FrontMatter \o <<LWelcome>>, ListExample}

(***************************************************************************)
(* parsePmap                                                               *)
(***************************************************************************)
\* The chain with the metadata test placed below the heading test
KindHeadingFirst(trimmed, index, meta) ==
  IF trimmed = <<>> THEN "blank"
  ELSE IF trimmed = Dashes /\ index = 0 THEN "open"
  ELSE IF trimmed = Dashes /\ meta THEN "close"
  ELSE IF StartsWith(trimmed, HashMark) THEN "heading"
  ELSE IF meta THEN "metadata"
  ELSE IF StartsWith(trimmed, ImageKey) THEN "image"
  ELSE IF StartsWith(trimmed, DashMark) THEN "item"
  ELSE "text"

\* The chain with the opening delimiter accepted at any line index
KindOpensAnywhere(trimmed, index, meta) ==
  IF trimmed = <<>> THEN "blank"
  ELSE IF trimmed = Dashes /\ ~meta THEN "open"
  ELSE IF trimmed = Dashes /\ meta THEN "close"
  ELSE IF meta THEN "metadata"
  ELSE IF StartsWith(trimmed, HashMark) THEN "heading"
  ELSE IF StartsWith(trimmed, ImageKey) THEN "image"
  ELSE IF StartsWith(trimmed, DashMark) THEN "item"
  ELSE "text"

\* A chain whose metadata branch takes the keyed lines only, so that the
\* other lines of the block fall through to the content tests
KindMetadataKeysOnly(trimmed, index, meta) ==
  IF trimmed = <<>> THEN "blank"
  ELSE IF trimmed = Dashes /\ index = 0 THEN "open"
  ELSE IF trimmed = Dashes /\ meta THEN "close"
  ELSE IF meta /\ (StartsWith(trimmed, TitleKey) \/ StartsWith(trimmed, DescKey))
       THEN "metadata"
  ELSE IF StartsWith(trimmed, HashMark) THEN "heading"
  ELSE IF StartsWith(trimmed, ImageKey) THEN "image"
  ELSE IF StartsWith(trimmed, DashMark) THEN "item"
  ELSE "text"

\* The branch of the loop body that a line takes: the first test of the
\* chain of ifs that holds, each of which ends in continue
Kind(trimmed, index, meta) ==
  IF trimmed = <<>> THEN "blank"
  ELSE IF trimmed = Dashes /\ index = 0 THEN "open"
  ELSE IF trimmed = Dashes /\ meta THEN "close"
  ELSE IF meta THEN "metadata"
  ELSE IF StartsWith(trimmed, HashMark) THEN "heading"
  ELSE IF StartsWith(trimmed, ImageKey) THEN "image"
  ELSE IF StartsWith(trimmed, DashMark) THEN "item"
  ELSE "text"

line    == lines[i + 1]
trimmed == Trim(line)

\* the loop runs and its body takes branch k on lines[i]
Scanning(k) ==
  /\ pc = "scan"
  /\ i < Len(lines)
  /\ Kind(trimmed, i, inMetadata) = k

\* parsePmap(content) is called with a content of D and is about to loop
Called(D) ==
  /\ \E content \in {Join(d) : d \in D} : lines = Split(content)
  /\ result = [sections |-> <<>>, title |-> Undefined, description |-> Undefined]
  /\ currentList = Null
  /\ inMetadata = FALSE
  /\ i = 0
  /\ pc = "scan"
  /\ earlier = Null
  /\ input = <<>>
  /\ text = <<>>

Init == Called(Documents)

LiveInit == Called(LiveDocuments)

\* A blank line that also ends the metadata block
BlankLineCloses ==
  /\ Scanning("blank")
  /\ result' = [result EXCEPT !.sections = Flushed(@, currentList)]
  /\ currentList' = Null
  /\ inMetadata' = FALSE
  /\ i' = i + 1
  /\ UNCHANGED <<lines, pc, earlier, input, text>>

BlankLine ==
  /\ Scanning("blank")
  /\ result' = [result EXCEPT !.sections = Flushed(@, currentList)]
  /\ currentList' = Null
  /\ i' = i + 1
  /\ UNCHANGED <<lines, inMetadata, pc, earlier, input, text>>

MetadataOpen ==
  /\ Scanning("open")
  /\ inMetadata' = TRUE
  /\ i' = i + 1
  /\ UNCHANGED <<lines, result, currentList, pc, earlier, input, text>>

MetadataClose ==
  /\ Scanning("close")
  /\ inMetadata' = FALSE
  /\ i' = i + 1
  /\ UNCHANGED <<lines, result, currentList, pc, earlier, input, text>>

\* A metadata line that sets a field only while it is undefined
MetadataLineFirstWins ==
  /\ Scanning("metadata")
  /\ result' =
       IF StartsWith(trimmed, TitleKey) /\ result.title = Undefined
       THEN [result EXCEPT !.title = Some(Trim(Substring(trimmed, 6)))]
       ELSE IF StartsWith(trimmed, DescKey) /\ result.description = Undefined
       THEN [result EXCEPT !.description = Some(Trim(Substring(trimmed, 12)))]
       ELSE result
  /\ i' = i + 1
  /\ UNCHANGED <<lines, currentList, inMetadata, pc, earlier, input, text>>

MetadataLine ==
  /\ Scanning("metadata")
  /\ result' =
       IF StartsWith(trimmed, TitleKey)
       THEN [result EXCEPT !.title = Some(Trim(Substring(trimmed, 6)))]
       ELSE IF StartsWith(trimmed, DescKey)
       THEN [result EXCEPT !.description = Some(Trim(Substring(trimmed, 12)))]
       ELSE result
  /\ i' = i + 1
  /\ UNCHANGED <<lines, currentList, inMetadata, pc, earlier, input, text>>

\* A heading that drops the list in progress instead of adding it
HeadingDropsList ==
  /\ Scanning("heading")
  /\ LET level   == HeadingLevel(trimmed)
         content == Trim(Substring(trimmed, level))
     IN  result' = [result EXCEPT !.sections =
                      Append(@, HeadingSection(content, level))]
  /\ currentList' = Null
  /\ i' = i + 1
  /\ UNCHANGED <<lines, inMetadata, pc, earlier, input, text>>

Heading ==
  /\ Scanning("heading")
  /\ LET level   == HeadingLevel(trimmed)
         content == Trim(Substring(trimmed, level))
     IN  result' = [result EXCEPT !.sections =
                      Append(Flushed(@, currentList),
                             HeadingSection(content, level))]
  /\ currentList' = Null
  /\ i' = i + 1
  /\ UNCHANGED <<lines, inMetadata, pc, earlier, input, text>>

\* An image line that reads the groups of a match that is null, and fails
ImageUnguarded ==
  /\ Scanning("image")
  /\ \E t \in {trimmed} : \E match \in {ImageMatch(t)} :
         /\ match # Null
         /\ result' = [result EXCEPT !.sections =
                         Append(Flushed(@, currentList),
                                ImageSection(Trim(match[1].url),
                                             ImageAlt(match[1])))]
  /\ currentList' = Null
  /\ i' = i + 1
  /\ UNCHANGED <<lines, inMetadata, pc, earlier, input, text>>

\* An image line that flushes the list only when the expression matches
ImageFlushOnMatch ==
  /\ Scanning("image")
  /\ \E t \in {trimmed} : \E match \in {ImageMatch(t)} :
         result' = [result EXCEPT !.sections =
                      IF match # Null
                      THEN Append(Flushed(@, currentList),
                                  ImageSection(Trim(match[1].url),
                                               ImageAlt(match[1])))
                      ELSE @]
  /\ currentList' = Null
  /\ i' = i + 1
  /\ UNCHANGED <<lines, inMetadata, pc, earlier, input, text>>

\* An image line that keeps the white space around the url
ImageRawUrl ==
  /\ Scanning("image")
  /\ \E t \in {trimmed} : \E match \in {ImageMatch(t)} :
         result' = [result EXCEPT !.sections =
                      IF match # Null
                      THEN Append(Flushed(@, currentList),
                                  ImageSection(match[1].url,
                                               ImageAlt(match[1])))
                      ELSE Flushed(@, currentList)]
  /\ currentList' = Null
  /\ i' = i + 1
  /\ UNCHANGED <<lines, inMetadata, pc, earlier, input, text>>

Image ==
  /\ Scanning("image")
  /\ \E t \in {trimmed} : \E match \in {ImageMatch(t)} :
         result' = [result EXCEPT !.sections =
                      IF match # Null
                      THEN Append(Flushed(@, currentList),
                                  ImageSection(Trim(match[1].url),
                                               ImageAlt(match[1])))
                      ELSE Flushed(@, currentList)]
  /\ currentList' = Null
  /\ i' = i + 1
  /\ UNCHANGED <<lines, inMetadata, pc, earlier, input, text>>

\* A list item that starts a new array on every line and so drops the run
ListItemRestarts ==
  /\ Scanning("item")
  /\ LET item == Trim(Substring(trimmed, 1))
     IN  currentList' = Some(<<item>>)
  /\ i' = i + 1
  /\ UNCHANGED <<lines, result, inMetadata, pc, earlier, input, text>>

\* A list item that adds the list section as soon as the list is created
ListItemEmits ==
  /\ Scanning("item")
  /\ LET item == Trim(Substring(trimmed, 1))
     IN  /\ currentList' = IF currentList = Null THEN Some(<<item>>)
                            ELSE Some(Append(currentList[1], item))
         /\ result' = IF currentList = Null
                      THEN [result EXCEPT !.sections =
                              Append(@, ListSection(<<item>>))]
                      ELSE result
  /\ i' = i + 1
  /\ UNCHANGED <<lines, inMetadata, pc, earlier, input, text>>

ListItem ==
  /\ Scanning("item")
  /\ LET item == Trim(Substring(trimmed, 1))
     IN  currentList' = IF currentList = Null THEN Some(<<item>>)
                        ELSE Some(Append(currentList[1], item))
  /\ i' = i + 1
  /\ UNCHANGED <<lines, result, inMetadata, pc, earlier, input, text>>

\* A paragraph that pushes its text section before it flushes the list
ParagraphBeforeFlush ==
  /\ Scanning("text")
  /\ result' = [result EXCEPT !.sections =
                  Flushed(Append(@, TextSection(trimmed)), currentList)]
  /\ currentList' = Null
  /\ i' = i + 1
  /\ UNCHANGED <<lines, inMetadata, pc, earlier, input, text>>

\* A paragraph that continues the text section it follows
ParagraphJoins ==
  /\ Scanning("text")
  /\ LET sections == Flushed(result.sections, currentList)
         n        == Len(sections)
     IN  result' = [result EXCEPT !.sections =
                      IF n > 0 /\ sections[n].type = "text"
                      THEN [sections EXCEPT ![n].content = @ \o <<" ">> \o trimmed]
                      ELSE Append(sections, TextSection(trimmed))]
  /\ currentList' = Null
  /\ i' = i + 1
  /\ UNCHANGED <<lines, inMetadata, pc, earlier, input, text>>

\* A paragraph that reads the metadata keys wherever it finds them
ParagraphReadsKeys ==
  /\ Scanning("text")
  /\ result' =
       IF StartsWith(trimmed, TitleKey)
       THEN [result EXCEPT !.title = Some(Trim(Substring(trimmed, 6))),
                           !.sections = Flushed(@, currentList)]
       ELSE [result EXCEPT !.sections =
               Append(Flushed(@, currentList), TextSection(trimmed))]
  /\ currentList' = Null
  /\ i' = i + 1
  /\ UNCHANGED <<lines, inMetadata, pc, earlier, input, text>>

Paragraph ==
  /\ Scanning("text")
  /\ result' = [result EXCEPT !.sections =
                  Append(Flushed(@, currentList), TextSection(trimmed))]
  /\ currentList' = Null
  /\ i' = i + 1
  /\ UNCHANGED <<lines, inMetadata, pc, earlier, input, text>>

\* the loop is over: the remaining list is added and result is returned
Return ==
  /\ pc = "scan"
  /\ ~(i < Len(lines))
  /\ result' = [result EXCEPT !.sections = Flushed(@, currentList)]
  /\ pc' = "done"
  /\ UNCHANGED <<lines, i, currentList, inMetadata, earlier, input, text>>

Next ==
  \/ BlankLine
  \/ MetadataOpen
  \/ MetadataClose
  \/ MetadataLine
  \/ Heading
  \/ Image
  \/ ListItem
  \/ Paragraph
  \/ Return

Spec == Init /\ [][Next]_vars

\* The documents that parsePmap is called on again and again
CallDocuments ==
  { FrontMatter \o <<LWelcome>>, ListExample, <<LDashes, LTitleT>>, <<LDashes>>,
    <<LItemA>>, <<LItemA, LItemB>>, <<LPara>>, <<LImage, LBlank>>, <<LTitle>>,
    <<LHello, LItemA>> }

CallsInit == Called(CallDocuments)

\* A call whose list in progress is that of the call before, as if
\* currentList were declared outside the function
CallKeepsList ==
  /\ pc = "done"
  /\ \E content \in {Join(d) : d \in CallDocuments} : lines' = Split(content)
  /\ result' = [sections |-> <<>>, title |-> Undefined, description |-> Undefined]
  /\ inMetadata' = FALSE
  /\ i' = 0
  /\ pc' = "scan"
  /\ earlier' = IF earlier = Null
                THEN Some([lines |-> lines, result |-> result]) ELSE earlier
  /\ UNCHANGED <<currentList, input, text>>

\* parsePmap is called again after it returned: the call splits its own
\* content and declares result, currentList and inMetadata anew
Call ==
  /\ pc = "done"
  /\ \E content \in {Join(d) : d \in CallDocuments} : lines' = Split(content)
  /\ result' = [sections |-> <<>>, title |-> Undefined, description |-> Undefined]
  /\ currentList' = Null
  /\ inMetadata' = FALSE
  /\ i' = 0
  /\ pc' = "scan"
  /\ earlier' = IF earlier = Null
                THEN Some([lines |-> lines, result |-> result]) ELSE earlier
  /\ UNCHANGED <<input, text>>

CallsNext == Next \/ Call

CallsSpec == CallsInit /\ [][CallsNext]_vars

(***************************************************************************)
(* processInlineMarkup                                                     *)
(***************************************************************************)
\* '<strong>$1</strong>'
Strong(x) ==
  <<"<", "s", "t", "r", "o", "n", "g", ">">> \o x \o <<"<", "/", "s", "t", "r", "o", "n", "g", ">">>

\* '<a href="$2" target="_blank">$1</a>'
Anchor(label, url) ==
  <<"<", "a", " ", "h", "r", "e", "f", "=", "\"">> \o url
    \o <<"\"", " ", "t", "a", "r", "g", "e", "t", "=", "\"", "_", "b", "l", "a", "n", "k", "\"", ">">> \o label
    \o <<"<", "/", "a", ">">>

\* A bold pattern whose content may be empty: [^\*]* for [^\*]+
BoldEndEmpty(s, p) ==
  LET m == Run("[^\\*]", s, p + 2)
  IN  IF /\ CharAt(s, p) = "*" /\ CharAt(s, p + 1) = "*"
         /\ CharAt(s, p + 2 + m) = "*" /\ CharAt(s, p + 3 + m) = "*"
      THEN p + 4 + m ELSE 0

\* A bold pattern whose content is any text up to the next "**": (.+?) for
\* ([^\*]+)
BoldEndAnyContent(s, p) ==
  LET ends == {e \in (p + 3)..(Len(s) - 1) :
                 /\ s[e] = "*" /\ s[e + 1] = "*"
                 /\ \A x \in (p + 2)..(e - 1) : IsDot(s[x])}
  IN  IF CharAt(s, p) = "*" /\ CharAt(s, p + 1) = "*" /\ ends # {}
      THEN Min(ends) + 2 ELSE 0

\* /\*\*([^\*]+)\*\*/ tried at position p (from 1): the position after the
\* match, 0 when there is none.  The greedy run of [^\*] stops at a "*" or
\* at the end, and a shorter run would stop before a character that is not
\* "*", so only the longest run can be followed by "**".
BoldEnd(s, p) ==
  LET m == Run("[^\\*]", s, p + 2)
  IN  IF /\ CharAt(s, p) = "*" /\ CharAt(s, p + 1) = "*"
         /\ m >= 1
         /\ CharAt(s, p + 2 + m) = "*" /\ CharAt(s, p + 3 + m) = "*"
      THEN p + 4 + m ELSE 0

\* text.replace(/\*\*([^\*]+)\*\*/g, '<strong>$1</strong>') from position
\* p on: the leftmost match is replaced and the search resumes after it
RECURSIVE ReplaceBoldFrom(_, _)
ReplaceBoldFrom(s, p) ==
  IF p > Len(s) THEN <<>>
  ELSE LET e == BoldEnd(s, p)
       IN  IF e = 0 THEN <<s[p]>> \o ReplaceBoldFrom(s, p + 1)
           ELSE Strong(SubSeq(s, p + 2, e - 3)) \o ReplaceBoldFrom(s, e)

ReplaceBold(s) == ReplaceBoldFrom(s, 1)

\* /\[([^\]]+)\]\(([^\)]+)\)/ tried at position p: <<the position after
\* the match, the length of group 1, the length of group 2>>, <<0, 0, 0>>
\* when there is none.  As for the bold pattern only the longest runs of
\* [^\]] and of [^\)] can be followed by "]" and by ")".
LinkEnd(s, p) ==
  LET a == Run("[^\\]]", s, p + 1)
      b == Run("[^\\)]", s, p + 3 + a)
  IN  IF /\ CharAt(s, p) = "["
         /\ a >= 1
         /\ CharAt(s, p + 1 + a) = "]" /\ CharAt(s, p + 2 + a) = "("
         /\ b >= 1
         /\ CharAt(s, p + 3 + a + b) = ")"
      THEN <<p + 4 + a + b, a, b>> ELSE <<0, 0, 0>>

\* text.replace(/\[([^\]]+)\]\(([^\)]+)\)/g,
\*              '<a href="$2" target="_blank">$1</a>') from position p on
RECURSIVE ReplaceLinksFrom(_, _)
ReplaceLinksFrom(s, p) ==
  IF p > Len(s) THEN <<>>
  ELSE LET m == LinkEnd(s, p)
       IN  IF m[1] = 0 THEN <<s[p]>> \o ReplaceLinksFrom(s, p + 1)
           ELSE Anchor(SubSeq(s, p + 1, p + m[2]),
                       SubSeq(s, p + 3 + m[2], p + 2 + m[2] + m[3]))
                \o ReplaceLinksFrom(s, m[1])

ReplaceLinks(s) == ReplaceLinksFrom(s, 1)

\* The pieces that the texts are made of
Tokens ==
  { <<"*", "*">>, <<"*">>, <<"a">>, <<"[", "a">>, <<"]", "(">>, <<"b", ")">>,
    <<"]">>, <<"(">> }

RECURSIVE Concat(_)
Concat(pieces) ==
  IF pieces = <<>> THEN <<>> ELSE Head(pieces) \o Concat(Tail(pieces))

EBoldLink  == <<"*", "*", "b", "o", "l", "d", "*", "*", " ", "a", "n", "d", " ", "[", "g", "o", "]", "(", "h", "t", "t", "p", ":", "/", "/", "x", ")">>
ETwoBold   == <<"*", "*", "a", "*", "*", "*", "*", "b", "*", "*">>
EStarBold  == <<"*", "*", "a", "*", "b", "*", "*", "c", "*", "*">>
ELinkBold  == <<"[", "*", "*", "a", "*", "*", "]", "(", "b", ")">>

\* The texts that processInlineMarkup is called on: every concatenation of
\* at most MaxTokens tokens, and longer examples
Texts ==
  {Concat(t) : t \in UNION {[1..n -> Tokens] : n \in 0..MaxTokens}}
  \cup {EBoldLink, ETwoBold, EStarBold, ELinkBold}

\* processInlineMarkup is called on a text
MarkupInit ==
  /\ input \in Texts
  /\ text = input
  /\ pc = "bold"
  /\ lines = <<>>
  /\ i = 0
  /\ result = [sections |-> <<>>, title |-> Undefined, description |-> Undefined]
  /\ currentList = Null
  /\ inMetadata = FALSE
  /\ earlier = Null

\* text = text.replace(bold pattern, ...)
Bold ==
  /\ pc = "bold"
  /\ text' = ReplaceBold(text)
  /\ pc' = "links"
  /\ UNCHANGED <<lines, i, result, currentList, inMetadata, earlier, input>>

\* text = text.replace(link pattern, ...); return text
Links ==
  /\ pc = "links"
  /\ text' = ReplaceLinks(text)
  /\ pc' = "returned"
  /\ UNCHANGED <<lines, i, result, currentList, inMetadata, earlier, input>>

MarkupNext == Bold \/ Links

MarkupSpec == MarkupInit /\ [][MarkupNext]_vars

\* parsePmap is synchronous code that runs to its return statement
FairSpec == LiveInit /\ [][Next]_vars /\ WF_vars(Next)

(***************************************************************************)
(* What the claims speak of, read off the input and the result             *)
(***************************************************************************)
IsPrefix(s, t) == Len(s) <= Len(t) /\ SubSeq(t, 1, Len(s)) = s

IsDelimiter(l) == Trim(l) = Dashes

\* Line n (from 1) belongs to the metadata block: it opens it, lies in it
\* or closes it
InFrontMatter(n) ==
  /\ IsDelimiter(lines[1])
  /\ \A m \in 2..(n - 1) : ~IsDelimiter(lines[m])

\* Line n (from 1) is a list-item line: outside the metadata block, and its
\* first character that is not white space is "-"
IsItemLine(n) ==
  /\ ~InFrontMatter(n)
  /\ \E k \in 1..Len(lines[n]) :
       /\ lines[n][k] = "-"
       /\ \A h \in 1..(k - 1) : IsSpace(lines[n][h])

\* its item text: what follows that "-", without the white space around it
ItemText(n) ==
  LET k == CHOOSE k \in 1..Len(lines[n]) :
             lines[n][k] = "-" /\ \A h \in 1..(k - 1) : IsSpace(lines[n][h])
  IN  Trim(SubSeq(lines[n], k + 1, Len(lines[n])))

\* The maximal runs of consecutive list-item lines among lines n.., as the
\* sequences of their item texts; run holds the run that line n continues
RECURSIVE ItemRuns(_, _)
ItemRuns(n, run) ==
  IF n > Len(lines) THEN (IF run = <<>> THEN <<>> ELSE <<run>>)
  ELSE IF IsItemLine(n) THEN ItemRuns(n + 1, Append(run, ItemText(n)))
  ELSE (IF run = <<>> THEN <<>> ELSE <<run>>) \o ItemRuns(n + 1, <<>>)

IsList(section) == section.type = "list"

\* the item sequences of the list sections, in order
ListsOf(sections) ==
  LET ls == SelectSeq(sections, IsList)
  IN  [k \in 1..Len(ls) |-> ls[k].items]

\* the loop is about to run its body on lines[i]
InLoop == pc = "scan" /\ i < Len(lines)

(***************************************************************************)
(* C1..C10                                                                 *)
(***************************************************************************)
\* C1: in the returned result the list sections are, in order, exactly the
\* maximal runs of consecutive list-item lines of the input, each with the
\* trimmed item texts of its lines in source order; so a run of N lines
\* gives one list section of N items and there is no other list section.
C1_RunsBecomeLists ==
  pc = "done" => ListsOf(result.sections) = ItemRuns(1, <<>>)

\* a run of two lines with different items, ended by a line, has been returned
C1_Witness ==
  /\ pc = "done"
  /\ \E n \in 1..(Len(lines) - 2) :
       /\ IsItemLine(n) /\ IsItemLine(n + 1) /\ ~IsItemLine(n + 2)
       /\ ItemText(n) # ItemText(n + 1)
  /\ ListsOf(result.sections) # <<>>

\* C2: in every state every list section of result.sections has at least
\* one item.
C2_NoEmptyList ==
  \A k \in 1..Len(result.sections) :
    IsList(result.sections[k]) => Len(result.sections[k].items) >= 1

\* a list section has been pushed by a blank line that ended a run
C2_Witness ==
  /\ InLoop
  /\ i >= 2
  /\ Trim(lines[i]) = <<>>
  /\ result.sections # <<>>
  /\ IsList(result.sections[Len(result.sections)])

\* C3: result.sections only grows at its end, in the order of the scan; a
\* heading, image or paragraph line processed while a list is pending
\* pushes the list section first and its own section, if it has one,
\* right after it; and paragraph, list line, blank line, paragraph returns
\* exactly text, list of one item, text.
C3_FlushBeforeBreaker ==
  [][LET old == result.sections
         new == result'.sections
         k   == Kind(trimmed, i, inMetadata)
     IN  /\ IsPrefix(old, new)
         /\ (InLoop /\ currentList # Null /\ k \in {"heading", "image", "text"}) =>
              /\ Len(new) \in {Len(old) + 1, Len(old) + 2}
              /\ new[Len(old) + 1] = ListSection(currentList[1])
              /\ k \in {"heading", "text"} =>
                   /\ Len(new) = Len(old) + 2
                   /\ new[Len(new)].type = k
              /\ (k = "image" /\ Len(new) = Len(old) + 2) =>
                   new[Len(new)].type = "image"
         /\ (pc' = "done" /\ lines = ListExample) =>
              new = << TextSection(<<"p">>), ListSection(<< <<"a">> >>),
                       TextSection(<<"p">>) >>
    ]_vars

\* paragraph, list line, blank line, paragraph has been parsed
C3_Witness ==
  /\ pc = "done"
  /\ lines = ListExample
  /\ Len(result.sections) = 3

\* C4: a line processed while inMetadata holds pushes no section and leaves
\* currentList as it is; if it starts with "title:" it sets title to the
\* trimmed rest, if it starts with "description:" it sets description to
\* the trimmed rest, and any other line leaves both as they are; and the
\* metadata block title: My Doc, description: A test followed by # Welcome
\* returns that title, that description and one heading of level 1, Welcome.
C4_MetadataEmitsNothing ==
  [][/\ (InLoop /\ inMetadata) =>
          /\ result'.sections = result.sections
          /\ currentList' = currentList
          /\ IF StartsWith(trimmed, TitleKey)
             THEN /\ result'.title = Some(Trim(SubSeq(trimmed, 7, Len(trimmed))))
                  /\ result'.description = result.description
             ELSE IF StartsWith(trimmed, DescKey)
             THEN /\ result'.description = Some(Trim(SubSeq(trimmed, 13, Len(trimmed))))
                  /\ result'.title = result.title
             ELSE result' = result
     /\ (pc' = "done" /\ lines = FrontMatter \o <<LWelcome>>) =>
          result' = [title       |-> Some(<<"M", "y", " ", "D", "o", "c">>),
                     description |-> Some(<<"A", " ", "t", "e", "s", "t">>),
                     sections    |-> << HeadingSection(
                                          <<"W", "e", "l", "c", "o", "m", "e">>, 1) >>]
    ]_vars

\* the metadata block followed by # Welcome has been parsed
C4_Witness ==
  /\ pc = "done"
  /\ lines = FrontMatter \o <<LWelcome>>
  /\ result.title # Undefined
  /\ Len(result.sections) = 1

\* C5: processing a line that trims to "---", at an index other than 0 and
\* while inMetadata is false, changes nothing but the line index: result,
\* currentList and inMetadata stay as they are.
C5_StrayDelimiterInert ==
  [][(InLoop /\ trimmed = Dashes /\ i # 0 /\ ~inMetadata) =>
       /\ result' = result
       /\ currentList' = currentList
       /\ inMetadata' = inMetadata
    ]_vars

IsKeyed(s) == StartsWith(s, TitleKey) \/ StartsWith(s, DescKey)

IsKeyedLine(l) == IsKeyed(Trim(l))

IsKeyedText(section) == section.type = "text" /\ IsKeyed(section.content)

\* C6: when the first line does not trim to "---", inMetadata is false in
\* every state, title and description stay undefined, and the text
\* sections whose content starts with "title:" or "description:" are, in
\* order, exactly the lines processed so far that start so, trimmed.
C6_NoMetadataWithoutOpener ==
  ~IsDelimiter(lines[1]) =>
    /\ ~inMetadata
    /\ result.title = Undefined
    /\ result.description = Undefined
    /\ LET keyed == SelectSeq(SubSeq(lines, 1, i), IsKeyedLine)
       IN  SelectSeq(result.sections, IsKeyedText) =
             [k \in 1..Len(keyed) |-> TextSection(Trim(keyed[k]))]

\* a document without opener with a list line and a title: line is returned
C6_Witness ==
  /\ pc = "done"
  /\ ~IsDelimiter(lines[1])
  /\ \E n \in 2..Len(lines) : IsKeyedLine(lines[n]) /\ IsItemLine(n - 1)
  /\ \E n \in 2..Len(lines) : IsDelimiter(lines[n])

\* the opening delimiter is never closed
NeverClosed ==
  /\ IsDelimiter(lines[1])
  /\ \A n \in 2..Len(lines) : ~IsDelimiter(lines[n])

\* C7: when line 0 trims to "---" and no later line does, inMetadata holds
\* from line 1 to the end of the input and result.sections stays empty,
\* also in the returned result.
C7_UnclosedBlockAbsorbsAll ==
  NeverClosed => (result.sections = <<>> /\ (i >= 1 => inMetadata))

\* an unclosed block with a list line and a heading in it has been returned
C7_Witness ==
  /\ pc = "done"
  /\ NeverClosed
  /\ Len(lines) = 3
  /\ Trim(lines[2]) = LItemA
  /\ Trim(lines[3]) = LWelcome

\* C8: every iteration of the loop moves to the next line and leaves the
\* input alone, whatever the line is, and every call reaches its return
\* with all lines processed and a result of title, description and
\* sections of the four kinds the parser produces.
C8_Terminates ==
  /\ [][InLoop => (i' = i + 1 /\ lines' = lines /\ pc' = "scan")]_vars
  /\ <>(/\ pc = "done"
        /\ i = Len(lines)
        /\ DOMAIN result = {"title", "description", "sections"}
        /\ \A k \in 1..Len(result.sections) :
             result.sections[k].type \in {"text", "heading", "list", "image"})

\* a malformed image line and a stray delimiter have been scanned through
C8_Witness ==
  /\ pc = "done"
  /\ i = 2
  /\ Trim(lines[1]) = LImageOpen
  /\ IsDelimiter(lines[2])
  /\ result.sections = << ListSection(<< <<"-", "-">> >>) >>

\* s has the shape [image: URL | ALT] from position p: the key, a URL part
\* of at least one character and no "|", and then either the closing "]"
\* or "|", an ALT part of at least one character that no line terminator
\* follows its leading white space in, and the closing "]"
HasImageShapeAt(s, p) ==
  LET q == p + 7
  IN  /\ q <= Len(s)
      /\ SubSeq(s, p, q - 1) = ImageKey
      /\ \E e \in (q + 1)..Len(s) :
           /\ s[e] = "]"
           /\ \/ \A x \in q..(e - 1) : s[x] # "|"
              \/ \E c \in (q + 1)..(e - 2) :
                   /\ s[c] = "|"
                   /\ \A x \in q..(c - 1) : s[x] # "|"
                   /\ \E d \in (c + 1)..(e - 1) :
                        /\ \A x \in (c + 1)..(d - 1) : IsSpace(s[x])
                        /\ \A x \in d..(e - 1) : IsDot(s[x])

HasImageShape(s) == \E p \in 1..Len(s) : HasImageShapeAt(s, p)

\* C9: outside metadata mode, a line that starts with "[image:" and has
\* not the shape [image: URL | ALT], as one without "]", pushes no section
\* of its own: the pending list, if any, is pushed as a list section,
\* currentList is cleared and the scan goes on with the next line.
C9_MalformedImageDropped ==
  [][(InLoop /\ ~inMetadata /\ StartsWith(trimmed, ImageKey)
        /\ ~HasImageShape(trimmed)) =>
       /\ result'.sections =
            (IF currentList = Null THEN result.sections
             ELSE Append(result.sections, ListSection(currentList[1])))
       /\ currentList' = Null
       /\ i' = i + 1
       /\ pc' = "scan"
    ]_vars

\* an image line without "]" has ended a run of list lines
C9_Witness ==
  /\ pc = "scan"
  /\ i >= 2
  /\ Trim(lines[i]) = LImageOpen
  /\ IsItemLine(i - 1)
  /\ ~inMetadata
  /\ currentList = Null
  /\ result.sections # <<>>
  /\ IsList(result.sections[Len(result.sections)])

\* what stands between "[image:" and the final "]" of t
ImageBody(t) == SubSeq(t, Len(ImageKey) + 1, Len(t) - 1)

Pipes(b) == {x \in 1..Len(b) : b[x] = "|"}

\* t is [image: URL | ALT ] or [image: URL ]: URL has at least one character
\* and no "|", ALT at least one character and no line terminator
IsImageForm(t) ==
  /\ StartsWith(t, ImageKey)
  /\ Len(t) >= Len(ImageKey) + 2
  /\ t[Len(t)] = "]"
  /\ LET b == ImageBody(t)
     IN  Pipes(b) # {} =>
           /\ Min(Pipes(b)) \in 2..(Len(b) - 1)
           /\ \A x \in (Min(Pipes(b)) + 1)..Len(b) : IsDot(b[x])

\* the section the claim gives such a line
ImageOfForm(t) ==
  LET b == ImageBody(t)
  IN  IF Pipes(b) = {} THEN ImageSection(Trim(b), <<>>)
      ELSE ImageSection(Trim(SubSeq(b, 1, Min(Pipes(b)) - 1)),
                        Trim(SubSeq(b, Min(Pipes(b)) + 1, Len(b))))

\* C10: outside metadata mode, a line [image: URL | ALT] pushes, after the
\* pending list if any, exactly one image section with url the trimmed
\* text before the first "|" and alt the trimmed text from there to the
\* closing "]", and a line [image: URL] one with that url and alt "";
\* [image: a.png | A cat] gives url a.png and alt A cat, [image: a.png]
\* gives url a.png and alt "".
C10_ImageSection ==
  [][(InLoop /\ ~inMetadata /\ IsImageForm(trimmed)) =>
       /\ result'.sections =
            Append(IF currentList = Null THEN result.sections
                   ELSE Append(result.sections, ListSection(currentList[1])),
                   ImageOfForm(trimmed))
       /\ trimmed = LImageAlt =>
            result'.sections[Len(result'.sections)] =
              ImageSection(<<"a", ".", "p", "n", "g">>,
                           <<"A", " ", "c", "a", "t">>)
       /\ trimmed = LImage =>
            result'.sections[Len(result'.sections)] =
              ImageSection(<<"a", ".", "p", "n", "g">>, <<>>)
    ]_vars

\* [image: a.png | A cat] has been processed after [image: a.png]
C10_Witness ==
  /\ i >= 2
  /\ lines[i] = LImageAlt
  /\ lines[i - 1] = LImage
  /\ ~InFrontMatter(i - 1)
  /\ Len(result.sections) >= 2
  /\ result.sections[Len(result.sections)].type = "image"
  /\ result.sections[Len(result.sections)].alt = <<"A", " ", "c", "a", "t">>

(***************************************************************************)
(* C11..C20                                                                *)
(***************************************************************************)
\* the number of "#" that t starts with: all of t, or up to its first other
\* character
LeadingHashes(t) ==
  CHOOSE n \in 0..Len(t) :
    /\ \A x \in 1..n : t[x] = "#"
    /\ n < Len(t) => t[n + 1] # "#"

\* C11: outside metadata mode, a line whose trimmed text starts with "#"
\* pushes, after the pending list if any, exactly one heading section, with
\* level the number of "#" the text starts with, however many, and content
\* the rest of the text, trimmed; ## Hello gives level 2 and content Hello.
C11_HeadingLevel ==
  [][(InLoop /\ ~inMetadata /\ trimmed # <<>> /\ trimmed[1] = "#") =>
       /\ LeadingHashes(trimmed) >= 1
       /\ result'.sections =
            Append(IF currentList = Null THEN result.sections
                   ELSE Append(result.sections, ListSection(currentList[1])),
                   HeadingSection(
                     Trim(SubSeq(trimmed, LeadingHashes(trimmed) + 1, Len(trimmed))),
                     LeadingHashes(trimmed)))
       /\ trimmed = LHello =>
            result'.sections[Len(result'.sections)] =
              HeadingSection(<<"H", "e", "l", "l", "o">>, 2)
    ]_vars

\* #### X and a line of ten "#" have been parsed to levels 4 and 10
C11_Witness ==
  /\ pc = "done"
  /\ lines = <<LDeep, LTen>>
  /\ result.sections = << HeadingSection(<<"X">>, 4), HeadingSection(<<>>, 10) >>

\* the lines among the first n that lie in the metadata block and start
\* with key
KeyLines(key, n) ==
  {m \in 1..n : InFrontMatter(m) /\ StartsWith(Trim(lines[m]), key)}

\* the field that the last of them sets, undefined when there is none
LastOf(key, n) ==
  IF KeyLines(key, n) = {} THEN Undefined
  ELSE LET m == CHOOSE x \in KeyLines(key, n) : \A y \in KeyLines(key, n) : y <= x
       IN  Some(Trim(SubSeq(Trim(lines[m]), Len(key) + 1, Len(Trim(lines[m])))))

\* C12: title is the trimmed rest of the last "title:" line of the
\* metadata block processed so far, and description that of the last
\* "description:" line, so in the returned result the last of several wins.
C12_LastKeyWins ==
  /\ result.title = LastOf(TitleKey, i)
  /\ result.description = LastOf(DescKey, i)

\* a block with two different titles and two different descriptions has
\* been returned
C12_Witness ==
  /\ pc = "done"
  /\ lines = <<LDashes, LTitleT, LDescription, LTitle, LDescB, LDashes, LPara>>
  /\ result.title = Some(<<"M", "y", " ", "D", "o", "c">>)
  /\ result.description = Some(<<"B">>)

\* C13: every call of parsePmap starts with no section, no list in progress
\* and the flag clear, and a call returns what the first call on the same
\* content returned, whatever was parsed in between.
C13_NoStateAcrossCalls ==
  /\ [][pc = "done" =>
          /\ result' = [sections |-> <<>>, title |-> Undefined,
                        description |-> Undefined]
          /\ currentList' = Null
          /\ inMetadata' = FALSE
          /\ i' = 0
       ]_vars
  /\ []((pc = "done" /\ earlier # Null /\ earlier[1].lines = lines) =>
          result = earlier[1].result)

\* a call on a paragraph has returned after a call that returned with a
\* list in progress, and again after the first call on the same paragraph
C13_Witness ==
  /\ pc = "done"
  /\ earlier # Null
  /\ earlier[1].lines = <<LPara>>
  /\ lines = <<LPara>>
  /\ currentList = Null
  /\ result.sections = << TextSection(<<"p">>) >>

\* s[p..e] is a span **X** with X of at least one character and no "*"
IsBoldSpan(s, p, e) ==
  /\ 1 <= p /\ p + 4 <= e /\ e <= Len(s)
  /\ s[p] = "*" /\ s[p + 1] = "*"
  /\ s[e - 1] = "*" /\ s[e] = "*"
  /\ \A x \in (p + 2)..(e - 2) : s[x] # "*"

BoldSpans(s) ==
  {sp \in (1..Len(s)) \X (1..Len(s)) : IsBoldSpan(s, sp[1], sp[2])}

\* s[a..c] is a span [L](U) with L of at least one character and no "]" and
\* U of at least one character and no ")"
IsLinkSpan(s, a, c) ==
  /\ 1 <= a /\ c <= Len(s)
  /\ s[a] = "[" /\ s[c] = ")"
  /\ \E b \in (a + 2)..(c - 3) :
       /\ s[b] = "]" /\ s[b + 1] = "("
       /\ \A x \in (a + 1)..(b - 1) : s[x] # "]"
       /\ \A x \in (b + 2)..(c - 1) : s[x] # ")"

LinkSpans(s) ==
  {sp \in (1..Len(s)) \X (1..Len(s)) : IsLinkSpan(s, sp[1], sp[2])}

RECURSIVE BoldExpected(_, _)
BoldExpected(s, n) ==
  LET later == {sp \in BoldSpans(s) : sp[1] >= n}
  IN  IF later = {} THEN SubSeq(s, n, Len(s))
      ELSE LET sp == CHOOSE x \in later : \A y \in later : x[1] <= y[1]
           IN  SubSeq(s, n, sp[1] - 1)
               \o Strong(SubSeq(s, sp[1] + 2, sp[2] - 2))
               \o BoldExpected(s, sp[2] + 1)

\* t is "**", a content that has a "*" in it, and "**"
IsStarSpan(t) ==
  /\ Len(t) >= 5
  /\ SubSeq(t, 1, 2) = <<"*", "*">>
  /\ SubSeq(t, Len(t) - 1, Len(t)) = <<"*", "*">>
  /\ \E x \in 3..(Len(t) - 2) : t[x] = "*"

\* C15 as the claim states it: the bold substitution replaces, from left to
\* right, the spans **X** whose X has no "*", and it leaves a text without
\* such a span, and a text that is a **...** span whose content has a "*"
\* in it, as they are.
C15_StarSpanUntouched ==
  [][pc = "bold" =>
       /\ text' = BoldExpected(text, 1)
       /\ (BoldSpans(text) = {} \/ IsStarSpan(text)) => text' = text
    ]_vars

\* C15: the bold substitution replaces, from left to right and without
\* overlap, every span **X** whose X has at least one character and no "*"
\* by X in a strong element, and changes nothing else: a text without such
\* a span stays as it is, and a **...** span whose content has a "*" in it
\* changes where such a span lies in it, as ***a** becomes *<strong>a</strong>.
C15_BoldLeftToRight ==
  [][pc = "bold" =>
       /\ text' = BoldExpected(text, 1)
       /\ BoldSpans(text) = {} => text' = text
       /\ text = <<"*", "*", "*", "a", "*", "*">> => text' = <<"*", "<", "s", "t", "r", "o", "n", "g", ">", "a", "<", "/", "s", "t", "r", "o", "n", "g", ">">>
       /\ text = ETwoBold => text' = Strong(<<"a">>) \o Strong(<<"b">>)
       /\ text = EStarBold =>
            text' = <<"*", "*", "a", "*", "b">> \o Strong(<<"c">>)
    ]_vars

\* the bold substitution has been applied to ***a**
C15_Witness ==
  /\ pc = "links"
  /\ input = <<"*", "*", "*", "a", "*", "*">>
  /\ text = <<"*", "<", "s", "t", "r", "o", "n", "g", ">", "a", "<", "/", "s", "t", "r", "o", "n", "g", ">">>

\* Line n (from 1) is a paragraph line: outside the metadata block, not
\* blank, and neither a heading, an image line nor a list item
IsParagraphLine(n) ==
  LET t == Trim(lines[n])
  IN  /\ ~InFrontMatter(n)
      /\ t # <<>>
      /\ t[1] \notin {"#", "-"}
      /\ ~StartsWith(t, ImageKey)

\* the text sections of the paragraph lines among the first n lines
RECURSIVE ParagraphTexts(_)
ParagraphTexts(n) ==
  IF n = 0 THEN <<>>
  ELSE IF IsParagraphLine(n)
       THEN Append(ParagraphTexts(n - 1), TextSection(Trim(lines[n])))
       ELSE ParagraphTexts(n - 1)

IsText(section) == section.type = "text"

\* C16: the text sections are, in order, one per paragraph line processed
\* so far, each with the trimmed line as content; two adjacent paragraph
\* lines give two text sections, not one.
C16_OneTextPerParagraph ==
  SelectSeq(result.sections, IsText) = ParagraphTexts(i)

\* two adjacent paragraph lines, the first with white space around it, have
\* been returned as two text sections
C16_Witness ==
  /\ pc = "done"
  /\ lines = <<LParaQ, LPara>>
  /\ result.sections = << TextSection(<<"q">>), TextSection(<<"p">>) >>

\* C17: a step on a list-item line outside metadata mode appends the item
\* to the list in progress, creating the list when there is none, and
\* changes neither the sections, the title, the description nor the flag.
C17_ItemOnlyExtendsList ==
  [][(InLoop /\ ~inMetadata /\ IsItemLine(i + 1)) =>
       /\ currentList' =
            Some((IF currentList = Null THEN <<>> ELSE currentList[1])
                 \o <<ItemText(i + 1)>>)
       /\ result' = result
       /\ inMetadata' = inMetadata
    ]_vars

\* a second item has been appended after a paragraph was emitted, and no
\* list section has been added yet
C17_Witness ==
  /\ pc = "scan"
  /\ currentList = Some(<< <<"a">>, <<"b">> >>)
  /\ result.sections = << TextSection(<<"p">>) >>

\* C18: while the metadata flag is set there is no list in progress and no
\* section has been emitted.
C18_MetadataBeforeContent ==
  inMetadata => (currentList = Null /\ result.sections = <<>>)

\* the scan is inside the metadata block, past a title line
C18_Witness ==
  /\ pc = "scan"
  /\ inMetadata
  /\ i >= 2
  /\ result.title # Undefined

RECURSIVE EmittedItems(_)
EmittedItems(sections) ==
  IF sections = <<>> THEN 0
  ELSE (IF IsList(Head(sections)) THEN Len(Head(sections).items) ELSE 0)
       + EmittedItems(Tail(sections))

PendingItems == IF currentList = Null THEN 0 ELSE Len(currentList[1])

ItemLinesUpTo(n) == Cardinality({m \in 1..n : IsItemLine(m)})

\* C19: during the scan the items of the emitted list sections and those of
\* the list in progress together number the list-item lines processed so
\* far; in the returned result the emitted items alone number all the
\* list-item lines.
C19_ItemsConserved ==
  /\ pc = "scan" => EmittedItems(result.sections) + PendingItems = ItemLinesUpTo(i)
  /\ pc = "done" => EmittedItems(result.sections) = ItemLinesUpTo(Len(lines))

\* two lists separated by a heading have been returned, two items in all
C19_Witness ==
  /\ pc = "done"
  /\ Len(ListsOf(result.sections)) = 2
  /\ EmittedItems(result.sections) = 2
  /\ \E n \in 1..Len(result.sections) : result.sections[n].type = "heading"

\* C20: the flag is set only by the step on line index 0; once the scan is
\* past index 0 with the flag clear, the flag stays clear and no step
\* changes the title or the description.
C20_MetadataOnlyAtStart ==
  [][/\ (~inMetadata /\ inMetadata') => i = 0
     /\ (~inMetadata /\ i >= 1) =>
          /\ ~inMetadata'
          /\ result'.title = result.title
          /\ result'.description = result.description
    ]_vars

\* a closed block was followed by a title line and by another ---, and the
\* title of the block has been returned
C20_Witness ==
  /\ pc = "done"
  /\ lines = FrontMatter \o <<LTitleT, LDashes>>
  /\ ~inMetadata
  /\ result.title = Some(<<"M", "y", " ", "D", "o", "c">>)
  /\ result.description = Some(<<"A", " ", "t", "e", "s", "t">>)
====
